---------------------------- MODULE Spec2Model ----------------------------
(***************************************************************************)
(* A model of style_transfer.py: the sizing helpers (size_to_fit,          *)
(* gen_scales), the loss modules TVLoss and WeightedLoss, the optimizer    *)
(* state resampler scale_adam, and the multi-scale loop of                 *)
(* StyleTransfer.stylize.                                                  *)
(*                                                                         *)
(* Numbers.  Python ints are unbounded, so integers carry no width.  The   *)
(* floats of the sizing helpers are quotients and square roots of small    *)
(* integers; they are modelled exactly (round_div, round_sqrt), which is   *)
(* what double precision gives at image sizes.  Tensor entries of the      *)
(* stylize loop are modelled by integer bounds [lo, hi] that enclose every *)
(* entry; TVLoss is modelled on concrete integer grids.                    *)
(***************************************************************************)
EXTENDS Integers, Sequences, FiniteSets, TLC

VARIABLES
    pc,       \* position of the call being modelled
    args,     \* the arguments of the call
    ret,      \* what the call has returned (or yielded) so far
    out,      \* the lines the call has printed
    heap,     \* the Python objects of the optimizers: heap[id] is object id
    image,    \* stylize: the tensor self.image names
    grad,     \* stylize: self.image.grad
    opt,      \* stylize: the optimizer opt names (0 is None)
    opt2,     \* stylize: the optimizer opt2 names (0 is unbound)
    scale_n,  \* stylize: how many scales the for loop has drawn from gen_scales
    scale,    \* stylize: the loop variable scale
    cw, ch,   \* stylize: the content fit size
    sw, sh,   \* stylize: the style fit size
    i,        \* stylize: the loop variable i (0 before the first iteration of a scale)
    log       \* stylize: the events of the optimization so far, in order

locals == <<image, grad, opt, opt2, scale_n, scale, cw, ch, sw, sh, i, log>>

vars == <<pc, args, ret, out, heap, locals>>

(***************************************************************************)
(* Bounds of the model.                                                    *)
(***************************************************************************)
MaxSide == 8        \* sides of the sizes given to size_to_fit
MaxDim == 8         \* max_dim given to size_to_fit
MaxStart == 8       \* start given to gen_scales
MaxN == 8           \* n given to gen_scales
MaxGrid == 3        \* height and width of the grids given to TVLoss
MaxPix == 1         \* largest pixel value of those grids
MaxTerms == 3       \* number of loss terms and of weights of a WeightedLoss
MaxVal == 2         \* largest value of a loss term
MaxWeight == 2      \* largest weight
MaxGrad == 1        \* bound of the entries of a gradient
MaxMove == 1        \* bound of the move of an entry in one optimizer step
MaxParams == 2      \* parameters of the optimizer state given to scale_adam
MaxStep == 2        \* step count of that state
MaxMoment == 1      \* bound of the entries of its moments
MaxShape == 2       \* sides of its tensors and of the target shape

Max(a, b) == IF a >= b THEN a ELSE b
Min(a, b) == IF a <= b THEN a ELSE b

RECURSIVE Pow2(_)
Pow2(k) == IF k <= 0 THEN 1 ELSE 2 * Pow2(k - 1)

(***************************************************************************)
(* Python's round() on the quotient p / q of two integers, q > 0: the      *)
(* nearest integer, a tie going to the even one.                           *)
(***************************************************************************)
round_div_floor(p, q) == p \div q

round_div(p, q) ==
    LET f == p \div q
        r2 == 2 * (p % q)
    IN  IF r2 < q THEN f
        ELSE IF r2 > q THEN f + 1
        ELSE IF f % 2 = 0 THEN f ELSE f + 1

(***************************************************************************)
(* size_to_fit(size, max_dim, scale_up): sizes are pairs <<w, h>>.         *)
(***************************************************************************)
size_to_fit(size, max_dim, scale_up) ==
    LET w == size[1]
        h == size[2]
    IN  IF ~scale_up /\ Max(h, w) <= max_dim
        THEN <<w, h>>
        ELSE IF h > w
             THEN <<round_div(max_dim * w, h), max_dim>>
             ELSE <<max_dim, round_div(max_dim * h, w)>>

(***************************************************************************)
(* round(start * pow(2, i/2)).  The product is the square root of          *)
(* start^2 * 2^i; isqrt is its integer part and round_sqrt the nearest     *)
(* integer (a square root of an integer is never half-way between two).    *)
(***************************************************************************)
RECURSIVE isqrt_from(_, _)
isqrt_from(m, r) == IF (r + 1) * (r + 1) > m THEN r ELSE isqrt_from(m, r + 1)

isqrt(m) == isqrt_from(m, 0)

round_sqrt_floor(m) == isqrt(m)

round_sqrt(m) ==
    LET r == isqrt(m)
    IN  IF m - r * r > r THEN r + 1 ELSE r

scale_at(start, e) == round_sqrt(start * start * Pow2(e))

gen_scales(start, n) == [k \in 1..n |-> scale_at(start, k - 1)]

(***************************************************************************)
(* Tensors of TVLoss: a grid is a sequence of rows, a row a sequence of    *)
(* integers.  The four slices of TVLoss.forward and torch's elementwise    *)
(* operations.                                                             *)
(***************************************************************************)
RowsInit(t) == SubSeq(t, 1, Len(t) - 1)                             \* [:-1, :]
RowsTail(t) == SubSeq(t, 2, Len(t))                                 \* [1:, :]
ColsInit(t) == [r \in 1..Len(t) |-> SubSeq(t[r], 1, Len(t[r]) - 1)] \* [:, :-1]
ColsTail(t) == [r \in 1..Len(t) |-> SubSeq(t[r], 2, Len(t[r]))]     \* [:, 1:]

TSub(a, b) == [r \in 1..Len(a) |-> [c \in 1..Len(a[r]) |-> a[r][c] - b[r][c]]]
TAdd(a, b) == [r \in 1..Len(a) |-> [c \in 1..Len(a[r]) |-> a[r][c] + b[r][c]]]
TSquare(a) == [r \in 1..Len(a) |-> [c \in 1..Len(a[r]) |-> a[r][c] * a[r][c]]]

RECURSIVE SeqSum(_)
SeqSum(s) == IF Len(s) = 0 THEN 0 ELSE s[1] + SeqSum(Tail(s))

RECURSIVE TSum(_)
TSum(t) == IF Len(t) = 0 THEN 0 ELSE SeqSum(t[1]) + TSum(Tail(t))

TVLoss_forward(input) ==
    LET x_diff == TSub(ColsInit(RowsInit(input)), ColsTail(RowsInit(input)))
        y_diff == TSub(ColsInit(RowsInit(input)), ColsInit(RowsTail(input)))
        diff == TAdd(TSquare(x_diff), TSquare(y_diff))
    IN  TSum(diff)

(***************************************************************************)
(* WeightedLoss.forward.  values[k] is what the k-th loss module returns   *)
(* on the input; zip pairs the modules with the weights and stops at the   *)
(* shorter list.  A printed line is <<index, value printed>>.              *)
(***************************************************************************)
zip_len(a, b) == Min(Len(a), Len(b))

print_losses_raw(values, losses) == [k \in 1..Len(losses) |-> <<k - 1, values[k]>>]

print_losses(values, losses) == [k \in 1..Len(losses) |-> <<k - 1, losses[k]>>]

RECURSIVE py_sum(_, _)
py_sum(s, acc) == IF Len(s) = 0 THEN acc ELSE py_sum(Tail(s), acc + s[1])

WeightedLoss_forward(values, weights, verbose) ==
    LET losses == [k \in 1..zip_len(values, weights) |-> values[k] * weights[k]]
    IN  [out |-> IF verbose THEN print_losses(values, losses) ELSE <<>>,
         ret |-> py_sum(losses, 0)]

(***************************************************************************)
(* Tensors of the optimizer and of the stylize loop: a shape <<h, w>> and  *)
(* integer bounds lo <= hi that enclose every entry.                       *)
(***************************************************************************)
Tensor(shape, lo, hi) == [kind |-> "tensor", shape |-> shape, lo |-> lo, hi |-> hi]

NoImage == [kind |-> "None", shape |-> <<0, 0>>, lo |-> 0, hi |-> 0]

\* The local variables of stylize before the call (and in the other calls).
NoLocals ==
    /\ image = NoImage
    /\ grad = NoImage
    /\ opt = 0
    /\ opt2 = 0
    /\ scale_n = 0
    /\ scale = 0
    /\ cw = 0
    /\ ch = 0
    /\ sw = 0
    /\ sh = 0
    /\ i = 0
    /\ log = <<>>

(***************************************************************************)
(* torch on those tensors.  Bicubic interpolation overshoots by less than  *)
(* the spread of its input and reproduces a constant input; bilinear       *)
(* interpolation stays within the bounds of its input.                     *)
(***************************************************************************)
interpolate_same_shape(t, shape, mode) ==
    IF mode = "bicubic"
    THEN Tensor(t.shape, t.lo - (t.hi - t.lo), t.hi + (t.hi - t.lo))
    ELSE Tensor(t.shape, t.lo, t.hi)

interpolate(t, shape, mode) ==
    IF mode = "bicubic"
    THEN Tensor(shape, t.lo - (t.hi - t.lo), t.hi + (t.hi - t.lo))
    ELSE Tensor(shape, t.lo, t.hi)

relu_(t) == Tensor(t.shape, Max(t.lo, 0), Max(t.hi, 0))

clamp_upper(t, a, b) == Tensor(t.shape, Min(t.lo, b), Min(t.hi, b))

clamp(t, a, b) == Tensor(t.shape, Min(Max(t.lo, a), b), Min(Max(t.hi, a), b))

zeros_like(t) == Tensor(t.shape, 0, 0)

(***************************************************************************)
(* The objects of an optimizer.  heap is the sequence of the objects       *)
(* allocated so far and an object's id is its index.  A per-parameter      *)
(* state is a dict [step, exp_avg, exp_avg_sq] whose moments are ids of    *)
(* tensors; an optimizer is [state], the ids of its per-parameter states   *)
(* in parameter order; a state dict is a value [state] of the same form.   *)
(***************************************************************************)
ParamState(step, exp_avg, exp_avg_sq) ==
    [kind |-> "dict", step |-> step, exp_avg |-> exp_avg, exp_avg_sq |-> exp_avg_sq]

RECURSIVE deepcopy_groups(_, _, _)
deepcopy_groups(hp, groups, done) ==
    IF Len(groups) = 0 THEN [heap |-> hp, val |-> [state |-> done]]
    ELSE LET g == hp[Head(groups)]
             n == Len(hp)
             hp2 == hp \o <<hp[g.exp_avg], hp[g.exp_avg_sq],
                            ParamState(g.step, n + 1, n + 2)>>
         IN  deepcopy_groups(hp2, Tail(groups), Append(done, n + 3))

\* what a deepcopy that copied nothing would return
copy_alias(hp, state) == [heap |-> hp, val |-> state]

\* copy.deepcopy(state): [heap |-> the heap with the copies, val |-> the copy]
deepcopy(hp, state) == deepcopy_groups(hp, state.state, <<>>)

RECURSIVE scale_adam_groups(_, _, _)
scale_adam_groups(hp, groups, shape) ==
    IF Len(groups) = 0 THEN hp
    ELSE LET group == Head(groups)
             exp_avg == hp[hp[group].exp_avg]
             exp_avg_sq == hp[hp[group].exp_avg_sq]
             n == Len(hp)
             hp2 == hp \o <<interpolate(exp_avg, shape, "bicubic"),
                            interpolate(exp_avg_sq, shape, "bilinear")>>
             hp3 == [hp2 EXCEPT ![group].exp_avg = n + 1,
                                ![group].exp_avg_sq = n + 2]
             hp4 == [hp3 EXCEPT ![n + 2] = relu_(hp3[n + 2])]
         IN  scale_adam_groups(hp4, Tail(groups), shape)

\* scale_adam(state, shape): [heap |-> the heap after the call, val |-> the result]
scale_adam(hp, state, shape) ==
    LET c == deepcopy(hp, state)
    IN  [heap |-> scale_adam_groups(c.heap, c.val.state, shape), val |-> c.val]

\* optim.Adam([self.image], lr=step_size): the heap with the new optimizer last
new_adam(hp) == Append(hp, [kind |-> "Adam", state |-> <<>>])

\* opt.state_dict(): its entries are the optimizer's own per-parameter states
state_dict(hp, o) == [state |-> hp[o].state]

\* opt2.load_state_dict(state): the optimizer takes a deep copy of the state
load_state_dict(hp, o, state) ==
    LET c == deepcopy(hp, state)
    IN  [c.heap EXCEPT ![o].state = c.val.state]

(***************************************************************************)
(* Adam.step() on the one parameter p with gradient g.  The state is       *)
(* created on the parameter's first step; the moments are running          *)
(* averages of g and g^2; an entry of p moves against the sign of its      *)
(* first moment, by at most MaxMove.                                       *)
(***************************************************************************)
adam_init_state(hp, o, p) ==
    IF Len(hp[o].state) > 0 THEN hp
    ELSE LET n == Len(hp)
         IN  [hp \o <<zeros_like(p), zeros_like(p), ParamState(0, n + 1, n + 2)>>
                 EXCEPT ![o].state = <<n + 3>>]

adam_step(hp, o, p, g) ==
    LET hp1 == adam_init_state(hp, o, p)
        group == hp1[o].state[1]
        m == hp1[hp1[group].exp_avg]
        v == hp1[hp1[group].exp_avg_sq]
    IN  [hp1 EXCEPT ![group].step = @ + 1,
                    ![hp1[group].exp_avg] =
                        Tensor(m.shape, Min(m.lo, g.lo), Max(m.hi, g.hi)),
                    ![hp1[group].exp_avg_sq] =
                        Tensor(v.shape, Min(v.lo, 0),
                               Max(v.hi, Max(g.lo * g.lo, g.hi * g.hi)))]

adam_param(hp, o, p) ==
    LET m == hp[hp[hp[o].state[1]].exp_avg]
    IN  Tensor(p.shape,
               IF m.hi > 0 THEN p.lo - MaxMove ELSE p.lo,
               IF m.lo < 0 THEN p.hi + MaxMove ELSE p.hi)

\* loss.backward(): the gradient is added to self.image.grad
backward(p, g) ==
    IF g.kind = "None" THEN Tensor(p.shape, -MaxGrad, MaxGrad)
    ELSE Tensor(p.shape, g.lo - MaxGrad, g.hi + MaxGrad)

\* opt.zero_grad(): a gradient that exists is zeroed in place
zero_grad(g) == IF g.kind = "None" THEN g ELSE zeros_like(g)

(***************************************************************************)
(* SpecFit: one call of size_to_fit.                                       *)
(***************************************************************************)
InitFit ==
    /\ pc = "call"
    /\ args \in [size : (1..MaxSide) \X (1..MaxSide), max_dim : 1..MaxDim,
                 scale_up : BOOLEAN]
    /\ ret = <<>>
    /\ out = <<>>
    /\ heap = <<>>
    /\ NoLocals

CallFit ==
    /\ pc = "call"
    /\ ret' = size_to_fit(args.size, args.max_dim, args.scale_up)
    /\ pc' = "return"
    /\ UNCHANGED <<args, out, heap, locals>>

SpecFit == InitFit /\ [][CallFit]_vars

(***************************************************************************)
(* SpecScales: the generator gen_scales, one element per step.             *)
(***************************************************************************)
InitScales ==
    /\ pc = "call"
    /\ args \in [start : 1..MaxStart, n : -1..MaxN]
    /\ ret = <<>>
    /\ out = <<>>
    /\ heap = <<>>
    /\ NoLocals

YieldScale ==
    /\ pc = "call"
    /\ Len(ret) < Len(gen_scales(args.start, args.n))
    /\ ret' = Append(ret, gen_scales(args.start, args.n)[Len(ret) + 1])
    /\ UNCHANGED <<pc, args, out, heap, locals>>

StopScales ==
    /\ pc = "call"
    /\ Len(ret) >= Len(gen_scales(args.start, args.n))
    /\ pc' = "return"
    /\ UNCHANGED <<args, ret, out, heap, locals>>

SpecScales == InitScales /\ [][YieldScale \/ StopScales]_vars

(***************************************************************************)
(* SpecTV: one call of TVLoss.forward on an H x W grid.                    *)
(***************************************************************************)
Grids == UNION {[1..H -> [1..W -> 0..MaxPix]] : H \in 1..MaxGrid, W \in 1..MaxGrid}

InitTV ==
    /\ pc = "call"
    /\ args \in [input : Grids]
    /\ ret = 0
    /\ out = <<>>
    /\ heap = <<>>
    /\ NoLocals

CallTV ==
    /\ pc = "call"
    /\ ret' = TVLoss_forward(args.input)
    /\ pc' = "return"
    /\ UNCHANGED <<args, out, heap, locals>>

SpecTV == InitTV /\ [][CallTV]_vars

(***************************************************************************)
(* SpecLoss: one call of WeightedLoss.forward.                             *)
(***************************************************************************)
SeqsUpTo(S, n) == UNION {[1..k -> S] : k \in 0..n}

InitLoss ==
    /\ pc = "call"
    /\ args \in [values : SeqsUpTo(0..MaxVal, MaxTerms),
                 weights : SeqsUpTo(0..MaxWeight, MaxTerms),
                 verbose : BOOLEAN]
    /\ ret = 0
    /\ out = <<>>
    /\ heap = <<>>
    /\ NoLocals

CallLoss ==
    /\ pc = "call"
    /\ LET r == WeightedLoss_forward(args.values, args.weights, args.verbose)
       IN  /\ ret' = r.ret
           /\ out' = r.out
    /\ pc' = "return"
    /\ UNCHANGED <<args, heap, locals>>

SpecLoss == InitLoss /\ [][CallLoss]_vars

(***************************************************************************)
(* SpecAdam: one call of scale_adam.  The source state has 0..MaxParams    *)
(* per-parameter states, each with its own two moment tensors; the second  *)
(* moment may hold negative entries (q > 0).                               *)
(***************************************************************************)
RECURSIVE SourceHeap(_, _, _, _, _)
SourceHeap(n, step, shape, m, q) ==
    IF n = 0 THEN <<>>
    ELSE LET hp == SourceHeap(n - 1, step, shape, m, q)
         IN  hp \o <<Tensor(shape, -m, m), Tensor(shape, -q, MaxMoment),
                     ParamState(step, Len(hp) + 1, Len(hp) + 2)>>

Shapes == (1..MaxShape) \X (1..MaxShape)

InitAdam ==
    /\ pc = "call"
    /\ \E n \in 0..MaxParams, step \in 1..MaxStep, shape \in Shapes,
          m \in 0..MaxMoment, q \in 0..MaxMoment, target \in Shapes :
           /\ heap = SourceHeap(n, step, shape, m, q)
           /\ args = [state |-> [state |-> [k \in 1..n |-> 3 * k]], shape |-> target]
    /\ ret = [state |-> <<>>]
    /\ out = <<>>
    /\ NoLocals

CallAdam ==
    /\ pc = "call"
    /\ LET r == scale_adam(heap, args.state, args.shape)
       IN  /\ heap' = r.heap
           /\ ret' = r.val
    /\ pc' = "return"
    /\ UNCHANGED <<args, out, locals>>

SpecAdam == InitAdam /\ [][CallAdam]_vars

(***************************************************************************)
(* Spec: one call of StyleTransfer.stylize(content_img, style_img,         *)
(* initial_scale, scales, iterations).  The images are given by their      *)
(* sizes <<w, h>>; the weights and the step size do not steer the loop.    *)
(***************************************************************************)
MaxContentSide == 2     \* sides of the small content images
MaxStyleSide == 2       \* height of the small style images
MaxInitialScale == 2    \* initial_scale (besides 32)
MaxScales == 4          \* scales
MaxIterations == 2      \* iterations

ContentSizes == ((1..MaxContentSide) \X (1..MaxContentSide)) \cup {<<100, 50>>}
StyleSizes == {<<1, k>> : k \in 1..MaxStyleSide} \cup {<<80, 80>>}

Init ==
    /\ pc = "start"
    /\ args \in [content_size : ContentSizes, style_size : StyleSizes,
                 initial_scale : (1..MaxInitialScale) \cup {32},
                 scales : -1..MaxScales, iterations : -1..MaxIterations]
    /\ ret = NoImage
    /\ out = <<>>
    /\ heap = <<>>
    /\ NoLocals

\* Image.resize raises ValueError unless height and width are > 0
resize_raises(w, h) == w < 1 \/ h < 1

\* trange(1, iterations + 1) has a value after i
trange_short(k, iterations) == k + 1 < iterations

trange_more(k, iterations) == k < iterations

\* lines 185-198: the working image is the content image at the first fit size
Start ==
    /\ pc = "start"
    /\ LET fit == size_to_fit(args.content_size, args.initial_scale, TRUE)
       IN  /\ cw' = fit[1]
           /\ ch' = fit[2]
           /\ IF resize_raises(fit[1], fit[2])
              THEN pc' = "raised" /\ image' = image
              ELSE pc' = "for_scale" /\ image' = Tensor(<<fit[2], fit[1]>>, 0, 1)
    /\ opt' = 0
    /\ UNCHANGED <<args, ret, out, heap, grad, opt2, scale_n, scale, sw, sh, i, log>>

\* line 200: the for loop draws the next scale
NextScale ==
    /\ pc = "for_scale"
    /\ scale_n < Len(gen_scales(args.initial_scale, args.scales))
    /\ scale' = gen_scales(args.initial_scale, args.scales)[scale_n + 1]
    /\ scale_n' = scale_n + 1
    /\ pc' = "scale_setup"
    /\ UNCHANGED <<args, ret, out, heap, image, grad, opt, opt2, cw, ch, sw, sh, i, log>>

\* line 249: the schedule is exhausted and the image is returned
Return ==
    /\ pc = "for_scale"
    /\ scale_n >= Len(gen_scales(args.initial_scale, args.scales))
    /\ ret' = image
    /\ pc' = "returned"
    /\ UNCHANGED <<args, out, heap, locals>>

\* lines 201-209: the fit sizes, the resized sources, the resized working image
ScaleSetup ==
    /\ pc = "scale_setup"
    /\ LET cfit == size_to_fit(args.content_size, scale, TRUE)
           sfit == size_to_fit(args.style_size, scale, FALSE)
       IN  /\ cw' = cfit[1]
           /\ ch' = cfit[2]
           /\ sw' = sfit[1]
           /\ sh' = sfit[2]
           /\ IF resize_raises(cfit[1], cfit[2]) \/ resize_raises(sfit[1], sfit[2])
              THEN /\ pc' = "raised"
                   /\ UNCHANGED <<image, grad, log>>
              ELSE /\ pc' = "features"
                   /\ image' = clamp(interpolate(image, <<cfit[2], cfit[1]>>, "bicubic"),
                                     0, 1)
                   /\ grad' = NoImage
                   /\ log' = Append(log, "scale")
    /\ UNCHANGED <<args, ret, out, heap, opt, opt2, scale_n, scale, i>>

\* lines 211-230: the targets of this scale and the critic
FeatureExtraction ==
    /\ pc = "features"
    /\ pc' = "new_opt"
    /\ UNCHANGED <<args, ret, out, heap, locals>>

\* line 232
NewOptimizer ==
    /\ pc = "new_opt"
    /\ heap' = new_adam(heap)
    /\ opt2' = Len(heap) + 1
    /\ pc' = "load"
    /\ UNCHANGED <<args, ret, out, image, grad, opt, scale_n, scale, cw, ch, sw, sh, i, log>>

\* lines 233-235
LoadState ==
    /\ pc = "load"
    /\ IF scale # args.initial_scale
       THEN LET opt_state == scale_adam(heap, state_dict(heap, opt), <<ch, cw>>)
            IN  heap' = load_state_dict(opt_state.heap, opt2, opt_state.val)
       ELSE heap' = heap
    /\ pc' = "assign"
    /\ UNCHANGED <<args, ret, out, locals>>

\* line 236, and the fresh trange of line 238
AssignOpt ==
    /\ pc = "assign"
    /\ opt' = opt2
    /\ i' = 0
    /\ pc' = "iter"
    /\ UNCHANGED <<args, ret, out, heap, image, grad, opt2, scale_n, scale, cw, ch, sw, sh, log>>

\* line 238: the next iteration, or the end of this scale
NextIteration ==
    /\ pc = "iter"
    /\ IF trange_more(i, args.iterations)
       THEN i' = i + 1 /\ pc' = "forward"
       ELSE i' = i /\ pc' = "for_scale"
    /\ UNCHANGED <<args, ret, out, heap, image, grad, opt, opt2, scale_n, scale, cw, ch, sw, sh, log>>

\* lines 239-240
Forward ==
    /\ pc = "forward"
    /\ log' = Append(log, "forward")
    /\ pc' = "critic"
    /\ UNCHANGED <<args, ret, out, heap, image, grad, opt, opt2, scale_n, scale, cw, ch, sw, sh, i>>

\* lines 241-242
Critic ==
    /\ pc = "critic"
    /\ log' = Append(log, "critic")
    /\ pc' = "zero_grad"
    /\ UNCHANGED <<args, ret, out, heap, image, grad, opt, opt2, scale_n, scale, cw, ch, sw, sh, i>>

\* line 243
ZeroGrad ==
    /\ pc = "zero_grad"
    /\ grad' = zero_grad(grad)
    /\ log' = Append(log, "zero_grad")
    /\ pc' = "backward"
    /\ UNCHANGED <<args, ret, out, heap, image, opt, opt2, scale_n, scale, cw, ch, sw, sh, i>>

\* line 244
Backward ==
    /\ pc = "backward"
    /\ grad' = backward(image, grad)
    /\ log' = Append(log, "backward")
    /\ pc' = "step"
    /\ UNCHANGED <<args, ret, out, heap, image, opt, opt2, scale_n, scale, cw, ch, sw, sh, i>>

\* line 245
Step ==
    /\ pc = "step"
    /\ heap' = adam_step(heap, opt, image, grad)
    /\ image' = adam_param(heap', opt, image)
    /\ log' = Append(log, "step")
    /\ pc' = "clamp"
    /\ UNCHANGED <<args, ret, out, grad, opt, opt2, scale_n, scale, cw, ch, sw, sh, i>>

\* lines 246-247
Clamp ==
    /\ pc = "clamp"
    /\ image' = clamp(image, 0, 1)
    /\ log' = Append(log, "clamp")
    /\ pc' = "iter"
    /\ UNCHANGED <<args, ret, out, heap, grad, opt, opt2, scale_n, scale, cw, ch, sw, sh, i>>

Next ==
    \/ Start
    \/ NextScale
    \/ Return
    \/ ScaleSetup
    \/ FeatureExtraction
    \/ NewOptimizer
    \/ LoadState
    \/ AssignOpt
    \/ NextIteration
    \/ Forward
    \/ Critic
    \/ ZeroGrad
    \/ Backward
    \/ Step
    \/ Clamp

Spec == Init /\ [][Next]_vars

(***************************************************************************)
(* Helpers of the properties.                                              *)
(***************************************************************************)
RECURSIVE SumFn(_)
SumFn(f) ==
    IF DOMAIN f = {} THEN 0
    ELSE LET x == CHOOSE x \in DOMAIN f : TRUE
         IN  f[x] + SumFn([y \in DOMAIN f \ {x} |-> f[y]])

Abs(x) == IF x < 0 THEN -x ELSE x

\* s is an integer nearest to the quotient p / q (q > 0): |s - p/q| <= 1/2
NearestToQuotient(s, p, q) == Abs(2 * q * s - 2 * p) <= q

\* s is the integer nearest to the square root of m: |s - sqrt(m)| <= 1/2
NearestToRoot(s, m) ==
    /\ s >= 0
    /\ 4 * m <= (2 * s + 1) * (2 * s + 1)
    /\ (s = 0 \/ (2 * s - 1) * (2 * s - 1) <= 4 * m)

FitResized == args.scale_up \/ Max(args.size[1], args.size[2]) > args.max_dim
FitLonger == Max(args.size[1], args.size[2])
FitShorter == Min(args.size[1], args.size[2])
FitLongOut == IF args.size[2] > args.size[1] THEN ret[2] ELSE ret[1]
FitShortOut == IF args.size[2] > args.size[1] THEN ret[1] ELSE ret[2]

(***************************************************************************)
(* C7: size_to_fit with scale_up, or with a size that exceeds max_dim,     *)
(* returns a pair whose longer side is max_dim and whose shorter side is   *)
(* max_dim * shorter / longer rounded to a nearest integer; without        *)
(* scale_up a size that already fits is returned unchanged.                *)
(***************************************************************************)
C7_SizeToFit ==
    pc = "return" =>
        IF FitResized
        THEN /\ FitLongOut = args.max_dim
             /\ Max(ret[1], ret[2]) = args.max_dim
             /\ NearestToQuotient(FitShortOut, args.max_dim * FitShorter, FitLonger)
        ELSE ret = args.size

C7_Witness ==
    /\ pc = "return"
    /\ ~args.scale_up
    /\ FitLonger > args.max_dim
    /\ 2 * ((args.max_dim * FitShorter) % FitLonger) > FitLonger
    /\ FitShortOut = (args.max_dim * FitShorter) \div FitLonger + 1

(***************************************************************************)
(* C6: gen_scales(start, n) with n >= 1 yields exactly n integers, the     *)
(* first is start, element i is start * 2^(i/2) rounded to the nearest     *)
(* integer, and the sequence is non-decreasing.                            *)
(***************************************************************************)
C6_GenScales ==
    (pc = "return" /\ args.n >= 1) =>
        /\ Len(ret) = args.n
        /\ ret[1] = args.start
        /\ \A k \in 1..Len(ret) :
               NearestToRoot(ret[k], args.start * args.start * Pow2(k - 1))
        /\ \A k \in 1..(Len(ret) - 1) : ret[k] <= ret[k + 1]

C6_Witness ==
    /\ pc = "return"
    /\ args.n >= 3
    /\ Len(ret) = args.n
    /\ ret[1] = ret[2]
    /\ ret[2] < ret[3]

(***************************************************************************)
(* C9 as stated: TVLoss.forward returns the sum over every pixel that has  *)
(* a right neighbor of the squared difference to it, plus the sum over     *)
(* every pixel that has a below neighbor of the squared difference to it.  *)
(***************************************************************************)
TVHeight == Len(args.input)
TVWidth == Len(args.input[1])

TVAllPairs ==
    SumFn([p \in (1..TVHeight) \X (1..(TVWidth - 1)) |->
              (args.input[p[1]][p[2]] - args.input[p[1]][p[2] + 1])
            * (args.input[p[1]][p[2]] - args.input[p[1]][p[2] + 1])])
  + SumFn([p \in (1..(TVHeight - 1)) \X (1..TVWidth) |->
              (args.input[p[1]][p[2]] - args.input[p[1] + 1][p[2]])
            * (args.input[p[1]][p[2]] - args.input[p[1] + 1][p[2]])])

C9_TVAllNeighbors == pc = "return" => ret = TVAllPairs

(***************************************************************************)
(* C8 as stated: in verbose mode WeightedLoss.forward reports each term's  *)
(* raw (unweighted) value, in term order.                                  *)
(***************************************************************************)
LossPaired == zip_len(args.values, args.weights)

LossWeightedSum == SumFn([k \in 1..LossPaired |-> args.values[k] * args.weights[k]])

C8_VerboseRaw ==
    (pc = "return" /\ args.verbose /\ Len(args.values) = Len(args.weights)) =>
        /\ ret = LossWeightedSum
        /\ out = [k \in 1..Len(args.values) |-> <<k - 1, args.values[k]>>]

(***************************************************************************)
(* C8 amended: WeightedLoss.forward returns the sum, over the terms paired *)
(* with a weight, of term value * weight; in verbose mode it reports, in   *)
(* term order, each term's weighted value (value * weight), and nothing    *)
(* otherwise; the returned sum is the same with verbose on and off.        *)
(***************************************************************************)
C8_WeightedLoss ==
    pc = "return" =>
        /\ ret = LossWeightedSum
        /\ ret = WeightedLoss_forward(args.values, args.weights, ~args.verbose).ret
        /\ out = IF args.verbose
                 THEN [k \in 1..LossPaired |->
                          <<k - 1, args.values[k] * args.weights[k]>>]
                 ELSE <<>>

C8_Witness ==
    /\ pc = "return"
    /\ args.verbose
    /\ Len(args.values) = 2
    /\ Len(args.weights) = 2
    /\ out = <<<<0, 2 * args.values[1]>>, <<1, 0>>>>
    /\ args.values[1] > 0
    /\ args.values[2] > 0
    /\ ret = 2 * args.values[1]

(***************************************************************************)
(* Helpers of the properties of stylize.                                   *)
(***************************************************************************)
\* the value of a state: per parameter, its step count and its two moments
StateValue(hp, groups) ==
    [k \in 1..Len(groups) |->
        [step |-> hp[groups[k]].step,
         exp_avg |-> hp[hp[groups[k]].exp_avg],
         exp_avg_sq |-> hp[hp[groups[k]].exp_avg_sq]]]

Schedule == gen_scales(args.initial_scale, args.scales)

\* the content fit <<w, h>> at the k-th scale of the schedule
ContentFit(k) == size_to_fit(args.content_size, Schedule[k], TRUE)

InUnitRange(t) == 0 <= t.lo /\ t.hi <= 1

\* the positions from the resize of a scale to the end of its iterations
InScale ==
    pc \in {"features", "new_opt", "load", "assign", "iter", "forward", "critic",
            "zero_grad", "backward", "step", "clamp"}

Cycle == <<"forward", "critic", "zero_grad", "backward", "step", "clamp">>

RECURSIVE Cycles(_)
Cycles(n) == IF n <= 0 THEN <<>> ELSE Cycle \o Cycles(n - 1)

RECURSIVE ExpectedLog(_, _)
ExpectedLog(s, n) ==
    IF s <= 0 THEN <<>> ELSE <<"scale">> \o Cycles(n) \o ExpectedLog(s - 1, n)

IsPrefix(a, b) == Len(a) <= Len(b) /\ a = SubSeq(b, 1, Len(a))

Count(e) == Cardinality({k \in 1..Len(log) : log[k] = e})

(***************************************************************************)
(* C1 as stated: at every scale other than the first the new optimizer's   *)
(* state is the output of scale_adam on the previous scale's final         *)
(* optimizer state (so the step count continues), and at the first scale   *)
(* no state is loaded.  pc = "assign" is line 236, where opt still names   *)
(* the previous optimizer and opt2 the new one.                            *)
(***************************************************************************)
C1_StateCarried ==
    pc = "assign" =>
        IF scale_n > 1
        THEN LET r == scale_adam(heap, state_dict(heap, opt), <<ch, cw>>)
             IN  StateValue(heap, heap[opt2].state) = StateValue(r.heap, r.val.state)
        ELSE heap[opt2].state = <<>>

(***************************************************************************)
(* C2 as stated: a call with a non-positive scale count or a non-positive  *)
(* iteration count ends in an error and does not return an image.          *)
(***************************************************************************)
C2_InvalidConfigurationRaises ==
    (args.scales <= 0 \/ args.iterations <= 0) => pc # "returned"

(***************************************************************************)
(* C3 as stated: the working image lies in [0,1] immediately after every   *)
(* resize at a scale transition (pc = "features") and immediately after    *)
(* every optimizer step (pc = "clamp": opt.step() has returned).           *)
(***************************************************************************)
C3_InRangeAfterStep == pc \in {"features", "clamp"} => InUnitRange(image)

(***************************************************************************)
(* C3 amended: the working image lies in [0,1] immediately after every     *)
(* resize at a scale transition and immediately after the clamp that       *)
(* follows every optimizer step, hence everywhere but between an optimizer *)
(* step and its clamp; the returned image lies in [0,1].                   *)
(***************************************************************************)
C3_InRangeAfterClamp ==
    /\ (pc # "clamp" /\ image.kind = "tensor") => InUnitRange(image)
    /\ pc = "returned" => InUnitRange(ret)

C3_Witness ==
    /\ pc = "iter"
    /\ scale_n >= 2
    /\ i >= 1
    /\ Len(log) > 0
    /\ log[Len(log)] = "clamp"
    /\ image.lo = 0
    /\ image.hi = 1

(***************************************************************************)
(* C4: from the resize of a scale to the end of its iterations the working *)
(* image's height and width are those of size_to_fit(content size, current *)
(* scale, scale_up=True); the returned image has the content fit of the    *)
(* last scale (content 100x50, initial_scale 32, one scale: 32x16).        *)
(***************************************************************************)
C4_ImageSize ==
    /\ InScale =>
           /\ scale = Schedule[scale_n]
           /\ image.shape = <<ContentFit(scale_n)[2], ContentFit(scale_n)[1]>>
    /\ (pc = "returned" /\ args.scales >= 1) =>
           ret.shape = <<ContentFit(args.scales)[2], ContentFit(args.scales)[1]>>
    /\ (pc = "returned" /\ args.content_size = <<100, 50>>
            /\ args.initial_scale = 32 /\ args.scales = 1) =>
           ret.shape = <<16, 32>>

C4_Witness ==
    /\ pc = "returned"
    /\ args.content_size = <<100, 50>>
    /\ args.initial_scale = 32
    /\ args.scales = 3
    /\ args.iterations >= 1
    /\ ret.shape = <<32, 64>>

(***************************************************************************)
(* C5: a run with S >= 1 scales and N >= 1 iterations performs exactly     *)
(* S * N optimization cycles, N per scale, one scale after another, each   *)
(* cycle in the order forward pass, critic, clearing of the gradients,     *)
(* backpropagation, optimizer step, clamp.                                 *)
(***************************************************************************)
C5_Cycles ==
    /\ IsPrefix(log, ExpectedLog(args.scales, args.iterations))
    /\ (pc = "returned" /\ args.scales >= 1 /\ args.iterations >= 1) =>
           /\ log = ExpectedLog(args.scales, args.iterations)
           /\ Count("scale") = args.scales
           /\ \A e \in {Cycle[k] : k \in 1..Len(Cycle)} :
                  Count(e) = args.scales * args.iterations

C5_Witness ==
    /\ pc = "returned"
    /\ args.scales = 2
    /\ args.iterations = 2
    /\ Count("step") = 4
    /\ Count("clamp") = 4

(***************************************************************************)
(* C10: scale_adam leaves every object of the source state as it was (its  *)
(* per-parameter states with their step counts, and their moment tensors), *)
(* shares no object with it, and returns the step counts unchanged.        *)
(***************************************************************************)
StateObjects(hp, state) ==
    UNION {{state.state[k], hp[state.state[k]].exp_avg, hp[state.state[k]].exp_avg_sq} :
               k \in 1..Len(state.state)}

C10_ScaleAdamPure ==
    [][(pc = "call" /\ pc' = "return") =>
          /\ \A id \in StateObjects(heap, args.state) : heap'[id] = heap[id]
          /\ StateValue(heap', args.state.state) = StateValue(heap, args.state.state)
          /\ StateObjects(heap', ret') \cap StateObjects(heap, args.state) = {}
          /\ Len(ret'.state) = Len(args.state.state)
          /\ \A k \in 1..Len(ret'.state) :
                 heap'[ret'.state[k]].step = heap[args.state.state[k]].step]_vars

C10_Witness ==
    /\ pc = "return"
    /\ Len(ret.state) = 2
    /\ heap[heap[args.state.state[2]].exp_avg_sq].lo < 0
    /\ heap[heap[ret.state[2]].exp_avg_sq].lo = 0
    /\ heap[heap[ret.state[2]].exp_avg].shape # heap[heap[args.state.state[2]].exp_avg].shape
    /\ heap[ret.state[2]].step = 2

=============================================================================
